---------------------------- MODULE Spec2Model ----------------------------
(***************************************************************************)
(* A model of the Java binding generator's naming and type-mapping core    *)
(* (src/gen_java/mod.rs): the identifier sanitizer, the FFI-type table and *)
(* the render-once tracker of a generation run.                            *)
(*                                                                         *)
(* Rust strings are TLA+ strings; a character is a string of length one.   *)
(***************************************************************************)
EXTENDS Integers, Sequences, FiniteSets, TLC

(***************************************************************************)
(* Characters (char::is_lowercase, is_uppercase, is_alphanumeric,          *)
(* to_uppercase, to_lowercase), restricted to ASCII.                       *)
(***************************************************************************)
Char(s, i) == SubSeq(s, i, i)

LowerLetters == "abcdefghijklmnopqrstuvwxyz"

UpperLetters == "ABCDEFGHIJKLMNOPQRSTUVWXYZ"

Digits == "0123456789"

CharsOf(s) == {Char(s, i) : i \in 1..Len(s)}

LowerSet == CharsOf(LowerLetters)

UpperSet == CharsOf(UpperLetters)

DigitSet == CharsOf(Digits)

IndexIn(s, c) == CHOOSE i \in 1..Len(s) : Char(s, i) = c

is_lowercase(c) == c \in LowerSet

is_uppercase(c) == c \in UpperSet

is_alphanumeric(c) == c \in LowerSet \cup UpperSet \cup DigitSet

char_to_uppercase(c) ==
    IF c \in LowerSet THEN Char(UpperLetters, IndexIn(LowerLetters, c)) ELSE c

char_to_lowercase(c) ==
    IF c \in UpperSet THEN Char(LowerLetters, IndexIn(UpperLetters, c)) ELSE c

RECURSIVE uppercase(_)
uppercase(s) ==
    IF s = "" THEN "" ELSE char_to_uppercase(Char(s, 1)) \o uppercase(Tail(s))

RECURSIVE lowercase(_)
lowercase(s) ==
    IF s = "" THEN "" ELSE char_to_lowercase(Char(s, 1)) \o lowercase(Tail(s))

capitalize(s) ==
    IF s = "" THEN "" ELSE char_to_uppercase(Char(s, 1)) \o lowercase(Tail(s))

strip_suffix_ok(s, suffix) ==
    /\ Len(s) >= Len(suffix)
    /\ SubSeq(s, Len(s) - Len(suffix) + 1, Len(s)) = suffix

strip_suffix(s, suffix) == SubSeq(s, 1, Len(s) - Len(suffix))

starts_with(s, prefix) ==
    /\ Len(s) >= Len(prefix)
    /\ SubSeq(s, 1, Len(prefix)) = prefix

(***************************************************************************)
(* heck's word segmentation (heck::transform): the input is split at every *)
(* non-alphanumeric character, and each piece is split again where a       *)
(* lowercase character is followed by an uppercase one, and before the     *)
(* last capital of a run of capitals that is followed by a lowercase one.  *)
(***************************************************************************)
RECURSIVE split_non_alphanumeric(_, _, _)
split_non_alphanumeric(s, piece, acc) ==
    IF s = "" THEN Append(acc, piece)
    ELSE IF is_alphanumeric(Char(s, 1))
         THEN split_non_alphanumeric(Tail(s), piece \o Char(s, 1), acc)
         ELSE split_non_alphanumeric(Tail(s), "", Append(acc, piece))

RECURSIVE word_boundaries(_, _, _, _, _)
word_boundaries(word, i, init, mode, acc) ==
    IF i > Len(word) THEN acc
    ELSE IF i = Len(word) THEN Append(acc, SubSeq(word, init, Len(word)))
    ELSE LET c == Char(word, i)
             next == Char(word, i + 1)
             next_mode == IF is_lowercase(c) THEN "Lowercase"
                          ELSE IF is_uppercase(c) THEN "Uppercase"
                          ELSE mode
         IN  IF next_mode = "Lowercase" /\ is_uppercase(next)
             THEN word_boundaries(word, i + 1, i + 1, "Boundary",
                                  Append(acc, SubSeq(word, init, i)))
             ELSE IF mode = "Uppercase" /\ is_uppercase(c) /\ is_lowercase(next)
             THEN word_boundaries(word, i + 1, i, "Boundary",
                                  Append(acc, SubSeq(word, init, i - 1)))
             ELSE word_boundaries(word, i + 1, init, next_mode, acc)

RECURSIVE transform_pieces(_, _)
transform_pieces(pieces, acc) ==
    IF pieces = <<>> THEN acc
    ELSE transform_pieces(Tail(pieces),
                          word_boundaries(Head(pieces), 1, 1, "Boundary", acc))

transform(s) == transform_pieces(split_non_alphanumeric(s, "", <<>>), <<>>)

RECURSIVE join_capitalized(_)
join_capitalized(words) ==
    IF words = <<>> THEN ""
    ELSE capitalize(Head(words)) \o join_capitalized(Tail(words))

RECURSIVE join_shouty(_)
join_shouty(words) ==
    IF words = <<>> THEN ""
    ELSE IF Len(words) = 1 THEN uppercase(Head(words))
    ELSE uppercase(Head(words)) \o "_" \o join_shouty(Tail(words))

to_upper_camel_case(s) == join_capitalized(transform(s))

to_lower_camel_case(s) ==
    LET words == transform(s)
    IN  IF words = <<>> THEN ""
        ELSE lowercase(Head(words)) \o join_capitalized(Tail(words))

to_shouty_snake_case(s) == join_shouty(transform(s))

(***************************************************************************)
(* The reserved words (KEYWORDS) and the guard (fixup_keyword).            *)
(***************************************************************************)
KEYWORDS ==
    { "abstract", "continue", "for", "new", "switch",
      "assert", "default", "if", "package", "synchronized",
      "boolean", "do", "goto", "private", "this",
      "break", "double", "implements", "protected", "throw",
      "byte", "else", "import", "public", "throws",
      "case", "enum", "instanceof", "return", "transient",
      "catch", "extends", "int", "short", "try",
      "char", "final", "interface", "static", "void",
      "class", "finally", "long", "strictfp", "volatile",
      "const", "float", "native", "super", "while",
      "_" }

\* a slip: the guard left out
fixup_keyword_skipped(name) == name

fixup_keyword(name) == IF name \in KEYWORDS THEN "_" \o name ELSE name

(***************************************************************************)
(* The part of the ComponentInterface the sanitizer reads: the names used  *)
(* as error types (ComponentInterface::is_name_used_as_error).             *)
(***************************************************************************)
is_name_used_as_error(ci, nm) == nm \in ci.errors

\* str::replace: every non-overlapping match of from, left to right
RECURSIVE str_replace(_, _, _)
str_replace(s, from, to) ==
    IF s = "" THEN ""
    ELSE IF starts_with(s, from)
         THEN to \o str_replace(SubSeq(s, Len(from) + 1, Len(s)), from, to)
         ELSE Char(s, 1) \o str_replace(Tail(s), from, to)

\* a slip: the suffix rewrite done with replace(), which hits every "Error"
convert_error_suffix_anywhere(nm) == str_replace(nm, "Error", "Exception")

convert_error_suffix(nm) ==
    IF strip_suffix_ok(nm, "Error")
    THEN strip_suffix(nm, "Error") \o "Exception"
    ELSE nm

(***************************************************************************)
(* JavaCodeOracle's sanitizer methods.  Each method is the sequence of     *)
(* transformations its body applies to the raw name, innermost call        *)
(* first; format!("set{}", x) and format!("Uniffi{}", x) are the steps     *)
(* "format_set" and "format_Uniffi".                                        *)
(***************************************************************************)
SanitizerOps ==
    { "class_name", "fn_name", "var_name", "var_name_raw", "setter",
      "enum_variant_name", "ffi_callback_name", "ffi_struct_name" }

\* a slip: class_name converts to lower camel case, as the variable names do
sanitizer_steps_lower_class(op, ci, nm) ==
    CASE op = "class_name" ->
           <<"to_lower_camel_case">>
           \o (IF is_name_used_as_error(ci, nm)
               THEN <<"convert_error_suffix">> ELSE <<>>)
           \o <<"fixup_keyword">>
      [] op \in {"fn_name", "var_name"} ->
           <<"to_lower_camel_case", "fixup_keyword">>
      [] op = "var_name_raw" -> <<"to_lower_camel_case">>
      [] op = "setter" ->
           <<"to_upper_camel_case", "fixup_keyword", "format_set">>
      [] op = "enum_variant_name" -> <<"to_shouty_snake_case">>
      [] op \in {"ffi_callback_name", "ffi_struct_name"} ->
           <<"to_upper_camel_case", "format_Uniffi">>

sanitizer_steps(op, ci, nm) ==
    CASE op = "class_name" ->
           <<"to_upper_camel_case">>
           \o (IF is_name_used_as_error(ci, nm)
               THEN <<"convert_error_suffix">> ELSE <<>>)
           \o <<"fixup_keyword">>
      [] op = "fn_name" -> <<"to_lower_camel_case", "fixup_keyword">>
      [] op = "var_name_raw" -> <<"to_lower_camel_case">>
      [] op = "var_name" -> <<"to_lower_camel_case", "fixup_keyword">>
      [] op = "setter" ->
           <<"to_upper_camel_case", "fixup_keyword", "format_set">>
      [] op = "enum_variant_name" -> <<"to_shouty_snake_case">>
      [] op = "ffi_callback_name" ->
           <<"to_upper_camel_case", "format_Uniffi">>
      [] op = "ffi_struct_name" ->
           <<"to_upper_camel_case", "format_Uniffi">>

apply_step(step, s) ==
    CASE step = "to_upper_camel_case" -> to_upper_camel_case(s)
      [] step = "to_lower_camel_case" -> to_lower_camel_case(s)
      [] step = "to_shouty_snake_case" -> to_shouty_snake_case(s)
      [] step = "convert_error_suffix" -> convert_error_suffix(s)
      [] step = "fixup_keyword" -> fixup_keyword(s)
      [] step = "format_set" -> "set" \o s
      [] step = "format_Uniffi" -> "Uniffi" \o s

RECURSIVE apply_steps(_, _)
apply_steps(steps, s) ==
    IF steps = <<>> THEN s
    ELSE apply_steps(Tail(steps), apply_step(Head(steps), s))

class_name(ci, nm) == apply_steps(sanitizer_steps("class_name", ci, nm), nm)

fn_name(nm) == apply_steps(sanitizer_steps("fn_name", [errors |-> {}], nm), nm)

var_name_raw(nm) ==
    apply_steps(sanitizer_steps("var_name_raw", [errors |-> {}], nm), nm)

var_name(nm) == apply_steps(sanitizer_steps("var_name", [errors |-> {}], nm), nm)

setter(nm) == apply_steps(sanitizer_steps("setter", [errors |-> {}], nm), nm)

enum_variant_name(nm) ==
    apply_steps(sanitizer_steps("enum_variant_name", [errors |-> {}], nm), nm)

ffi_callback_name(nm) ==
    apply_steps(sanitizer_steps("ffi_callback_name", [errors |-> {}], nm), nm)

ffi_struct_name(nm) ==
    apply_steps(sanitizer_steps("ffi_struct_name", [errors |-> {}], nm), nm)

(***************************************************************************)
(* The raw names the sanitizer is run on.                                  *)
(***************************************************************************)
MaxNameLen == 3

NameAlphabet == {"d", "o", "O", "_"}

RECURSIVE ShortNamesOfLen(_)
ShortNamesOfLen(n) ==
    IF n = 0 THEN {""}
    ELSE {s \o c : s \in ShortNamesOfLen(n - 1), c \in NameAlphabet}

ShortNames == UNION {ShortNamesOfLen(n) : n \in 1..MaxNameLen}

KeywordVariants ==
    KEYWORDS \cup {capitalize(k) : k \in KEYWORDS}
             \cup {uppercase(k) : k \in KEYWORDS}

ErrorNames ==
    {p \o s : p \in {"", "My", "my_", "IO", "Error", "A1", "_1", "Uniffi"},
              s \in {"Error", "error", "ERROR", "Errors", "ErrorHandler",
                     "Exception"}}

OtherNames ==
    { "Foo", "foo", "foo_bar", "fooBar", "FOO_BAR", "UniffiFoo", "uniffi_foo",
      "Uniffi", "set", "get_class", "HTTPServer", "Point", "point",
      "distance", "x1", "class_", "new_", "Interface", "Impl",
      "ForeignFuture", "UniffiForeignFuture" }

RawNames == KeywordVariants \cup ErrorNames \cup OtherNames \cup ShortNames

(***************************************************************************)
(* Results of the FFI-type table.  A call either returns a string or       *)
(* panics (panic!, unimplemented!).                                        *)
(***************************************************************************)
Ok(s) == [panic |-> FALSE, val |-> s]

Panic(msg) == [panic |-> TRUE, val |-> msg]

\* format!("{pre}{}{post}", r): r is evaluated first, so its panic propagates
Format(pre, r, post) == IF r.panic THEN r ELSE Ok(pre \o r.val \o post)

(***************************************************************************)
(* Config::external_type_package_name.  crate_root is                      *)
(* module_path.split("::").next().unwrap().                                *)
(***************************************************************************)
RECURSIVE crate_root(_)
crate_root(module_path) ==
    IF module_path = "" \/ starts_with(module_path, "::") THEN ""
    ELSE Char(module_path, 1) \o crate_root(Tail(module_path))

\* external_type_package_name keyed by the whole module path
external_type_package_name_by_path(config, module_path, namespace) ==
    IF module_path \in DOMAIN config.external_packages
    THEN config.external_packages[module_path]
    ELSE "uniffi." \o namespace

external_type_package_name(config, module_path, namespace) ==
    LET crate_name == crate_root(module_path)
    IN  IF crate_name \in DOMAIN config.external_packages
        THEN config.external_packages[crate_name]
        ELSE "uniffi." \o namespace

(***************************************************************************)
(* FfiType.  name is the payload of RustArcPtr, Callback and Struct; ext   *)
(* is RustBuffer's Option<ExternalFfiMetadata> (<<>> is None, <<meta>> is  *)
(* Some(meta)); inner is the boxed type of Reference and MutReference.     *)
(***************************************************************************)
FfiType(kind, name, ext, inner) ==
    [kind |-> kind, name |-> name, ext |-> ext, inner |-> inner]

IntKinds ==
    {"Int8", "UInt8", "Int16", "UInt16", "Int32", "UInt32", "Int64", "UInt64"}

ScalarKinds == IntKinds \cup {"Float32", "Float64"}

RefKinds == {"Reference", "MutReference"}

RECURSIVE ffi_type_label(_, _, _)
RECURSIVE ffi_type_label_by_reference(_, _, _)

\* a slip: by-reference of an unsupported kind degrades to the plain label
ffi_type_label_by_reference_lenient(ffi_type, config, ci) ==
    CASE ffi_type.kind \in {"Int32", "UInt32"} -> Ok("IntByReference")
      [] ffi_type.kind \in ScalarKinds \ {"Int32", "UInt32"} ->
           Format("", ffi_type_label(ffi_type, config, ci), "ByReference")
      [] ffi_type.kind = "RustArcPtr" -> Ok("PointerByReference")
      [] OTHER -> ffi_type_label(ffi_type, config, ci)

ffi_type_label_by_reference(ffi_type, config, ci) ==
    CASE ffi_type.kind \in {"Int32", "UInt32"} -> Ok("IntByReference")
      [] ffi_type.kind \in {"Int8", "UInt8", "Int16", "UInt16", "Int64",
                            "UInt64", "Float32", "Float64"} ->
           Format("", ffi_type_label(ffi_type, config, ci), "ByReference")
      [] ffi_type.kind = "RustArcPtr" -> Ok("PointerByReference")
      [] ffi_type.kind \in {"RustBuffer", "Struct"} ->
           ffi_type_label(ffi_type, config, ci)
      [] OTHER -> Panic(ffi_type.kind \o " by reference is not implemented")

\* ffi_type_label without the cross-module arm: every buffer gets the local
\* name
ffi_type_label_local_buffer(ffi_type, config, ci) ==
    CASE ffi_type.kind \in {"Int8", "UInt8"} -> Ok("Byte")
      [] ffi_type.kind \in {"Int16", "UInt16"} -> Ok("Short")
      [] ffi_type.kind \in {"Int32", "UInt32"} -> Ok("Integer")
      [] ffi_type.kind \in {"Int64", "UInt64", "Handle"} -> Ok("Long")
      [] ffi_type.kind = "Float32" -> Ok("Float")
      [] ffi_type.kind = "Float64" -> Ok("Double")
      [] ffi_type.kind \in {"RustArcPtr", "VoidPointer"} -> Ok("Pointer")
      [] ffi_type.kind = "RustBuffer" -> Ok("RustBuffer")
      [] ffi_type.kind = "RustCallStatus" -> Ok("UniffiRustCallStatus.ByValue")
      [] ffi_type.kind = "ForeignBytes" -> Ok("ForeignBytes.ByValue")
      [] ffi_type.kind = "Callback" -> Ok(ffi_callback_name(ffi_type.name))
      [] ffi_type.kind = "Struct" -> Ok(ffi_struct_name(ffi_type.name))
      [] ffi_type.kind \in RefKinds ->
           ffi_type_label_by_reference(ffi_type.inner[1], config, ci)

ffi_type_label(ffi_type, config, ci) ==
    CASE ffi_type.kind \in {"Int8", "UInt8"} -> Ok("Byte")
      [] ffi_type.kind \in {"Int16", "UInt16"} -> Ok("Short")
      [] ffi_type.kind \in {"Int32", "UInt32"} -> Ok("Integer")
      [] ffi_type.kind \in {"Int64", "UInt64"} -> Ok("Long")
      [] ffi_type.kind = "Float32" -> Ok("Float")
      [] ffi_type.kind = "Float64" -> Ok("Double")
      [] ffi_type.kind = "Handle" -> Ok("Long")
      [] ffi_type.kind = "RustArcPtr" -> Ok("Pointer")
      [] ffi_type.kind = "RustBuffer" ->
           IF /\ ffi_type.ext # <<>>
              /\ ffi_type.ext[1].module_path # ci.crate_name
           THEN Ok(external_type_package_name(config,
                       ffi_type.ext[1].module_path, ffi_type.ext[1].name)
                   \o ".RustBuffer")
           ELSE Ok("RustBuffer")
      [] ffi_type.kind = "RustCallStatus" -> Ok("UniffiRustCallStatus.ByValue")
      [] ffi_type.kind = "ForeignBytes" -> Ok("ForeignBytes.ByValue")
      [] ffi_type.kind = "Callback" -> Ok(ffi_callback_name(ffi_type.name))
      [] ffi_type.kind = "Struct" -> Ok(ffi_struct_name(ffi_type.name))
      [] ffi_type.kind \in RefKinds ->
           ffi_type_label_by_reference(ffi_type.inner[1], config, ci)
      [] ffi_type.kind = "VoidPointer" -> Ok("Pointer")

ffi_type_primitive(ffi_type, config, ci) ==
    CASE ffi_type.kind \in {"Int8", "UInt8"} -> Ok("byte")
      [] ffi_type.kind \in {"Int16", "UInt16"} -> Ok("short")
      [] ffi_type.kind \in {"Int32", "UInt32"} -> Ok("int")
      [] ffi_type.kind \in {"Int64", "UInt64"} -> Ok("long")
      [] ffi_type.kind = "Float32" -> Ok("float")
      [] ffi_type.kind = "Float64" -> Ok("double")
      [] ffi_type.kind = "Handle" -> Ok("long")
      [] ffi_type.kind = "RustArcPtr" -> Ok("Pointer")
      [] ffi_type.kind = "RustBuffer" ->
           IF ffi_type.ext # <<>>
           THEN Ok(external_type_package_name(config,
                       ffi_type.ext[1].module_path, ffi_type.ext[1].name)
                   \o ".RustBuffer")
           ELSE Ok("RustBuffer")
      [] ffi_type.kind = "RustCallStatus" -> Ok("UniffiRustCallStatus.ByValue")
      [] ffi_type.kind = "ForeignBytes" -> Ok("ForeignBytes.ByValue")
      [] ffi_type.kind = "Callback" -> Ok(ffi_callback_name(ffi_type.name))
      [] ffi_type.kind = "Struct" -> Ok(ffi_struct_name(ffi_type.name))
      [] ffi_type.kind \in RefKinds ->
           ffi_type_label_by_reference(ffi_type.inner[1], config, ci)
      [] ffi_type.kind = "VoidPointer" -> Ok("Pointer")

ffi_type_label_by_value(ffi_type, prefer_primitive, config, ci) ==
    CASE ffi_type.kind = "RustBuffer" ->
           Format("", ffi_type_label(ffi_type, config, ci), ".ByValue")
      [] ffi_type.kind = "Struct" ->
           Ok(ffi_struct_name(ffi_type.name) \o ".UniffiByValue")
      [] OTHER ->
           IF prefer_primitive THEN ffi_type_primitive(ffi_type, config, ci)
           ELSE ffi_type_label(ffi_type, config, ci)

ffi_type_label_for_ffi_struct(ffi_type, config, ci) ==
    IF ffi_type.kind = "Callback" THEN Ok(ffi_callback_name(ffi_type.name))
    ELSE ffi_type_label_by_value(ffi_type, TRUE, config, ci)

ffi_default_value(ffi_type) ==
    CASE ffi_type.kind \in {"UInt8", "Int8"} -> Ok("(byte)0")
      [] ffi_type.kind \in {"UInt16", "Int16"} -> Ok("(short)0")
      [] ffi_type.kind \in {"UInt32", "Int32"} -> Ok("0")
      [] ffi_type.kind \in {"UInt64", "Int64"} -> Ok("0L")
      [] ffi_type.kind = "Float32" -> Ok("0.0f")
      [] ffi_type.kind = "Float64" -> Ok("0.0")
      [] ffi_type.kind = "RustArcPtr" -> Ok("Pointer.NULL")
      [] ffi_type.kind = "RustBuffer" -> Ok("new RustBuffer.ByValue()")
      [] ffi_type.kind = "Callback" -> Ok("null")
      [] ffi_type.kind = "RustCallStatus" ->
           Ok("new UniffiRustCallStatus.ByValue()")
      [] OTHER -> Panic("ffi_default_value: " \o ffi_type.kind)

(***************************************************************************)
(* The FFI types, configurations and interfaces the table is run on.       *)
(***************************************************************************)
MaxRefDepth == 2

FfiNames == {"ForeignFuture", "callback_interface_free", "class"}

ModulePaths == {"crate_a", "crate_b", "crate_b::sub"}

ExternalMetas ==
    [name : {"Point"}, module_path : ModulePaths]

BaseFfiTypes ==
    {FfiType(k, "", <<>>, <<>>) :
        k \in ScalarKinds \cup {"Handle", "RustCallStatus", "ForeignBytes",
                                "VoidPointer", "RustBuffer"}}
    \cup {FfiType("RustBuffer", "", <<m>>, <<>>) : m \in ExternalMetas}
    \cup {FfiType(k, n, <<>>, <<>>) :
            k \in {"RustArcPtr", "Callback", "Struct"}, n \in FfiNames}

RECURSIVE FfiTypesOfDepth(_)
FfiTypesOfDepth(d) ==
    IF d = 0 THEN BaseFfiTypes
    ELSE {FfiType(k, "", <<>>, <<t>>) :
            k \in RefKinds, t \in FfiTypesOfDepth(d - 1)}

FfiTypes == UNION {FfiTypesOfDepth(d) : d \in 0..MaxRefDepth}

Configs ==
    { [external_packages |-> [c \in {} |-> ""]],
      [external_packages |-> [c \in {"crate_b"} |-> "com.example.b"]],
      [external_packages |->
          [c \in {"crate_a", "crate_b"} |-> "com.example." \o c]] }

CrateNames == {"crate_a", "crate_b"}

FfiOps ==
    { "ffi_type_label", "ffi_type_primitive", "ffi_type_label_by_reference",
      "ffi_type_label_by_value", "ffi_type_label_for_ffi_struct",
      "ffi_default_value" }

(***************************************************************************)
(* IR types (uniffi_bindgen::interface::Type) and the Type-to-CodeType     *)
(* registry.  A type is a record: kind, and, where the variant has them,   *)
(* name, module_path, imp (Object) and the inner types in args (Optional,  *)
(* Sequence: one; Map: key, value; Custom: the builtin).                   *)
(***************************************************************************)
Type(kind, name, module_path, imp, args) ==
    [kind |-> kind, name |-> name, module_path |-> module_path, imp |-> imp,
     args |-> args]

SignedIntKinds == {"Int8", "Int16", "Int32", "Int64"}

UnsignedIntKinds == {"UInt8", "UInt16", "UInt32", "UInt64"}

PrimitiveKinds ==
    SignedIntKinds \cup UnsignedIntKinds
        \cup {"Float32", "Float64", "Boolean", "String", "Bytes"}

\* a descriptor: its struct and the fields `new` stores in it
CodeType(codetype, id, imp, inner) ==
    [codetype |-> codetype, id |-> id, imp |-> imp, inner |-> inner]

\* as_codetype with a custom type resolved to the descriptor of its builtin
as_codetype_custom_as_builtin(t) ==
    CASE t.kind \in {"UInt8", "Int8"} -> CodeType("Int8CodeType", "", "", <<>>)
      [] t.kind \in {"UInt16", "Int16"} ->
           CodeType("Int16CodeType", "", "", <<>>)
      [] t.kind \in {"UInt32", "Int32"} ->
           CodeType("Int32CodeType", "", "", <<>>)
      [] t.kind \in {"UInt64", "Int64"} ->
           CodeType("Int64CodeType", "", "", <<>>)
      [] t.kind = "Float32" -> CodeType("Float32CodeType", "", "", <<>>)
      [] t.kind = "Float64" -> CodeType("Float64CodeType", "", "", <<>>)
      [] t.kind = "Boolean" -> CodeType("BooleanCodeType", "", "", <<>>)
      [] t.kind = "String" -> CodeType("StringCodeType", "", "", <<>>)
      [] t.kind = "Bytes" -> CodeType("BytesCodeType", "", "", <<>>)
      [] t.kind = "Timestamp" -> CodeType("TimestampCodeType", "", "", <<>>)
      [] t.kind = "Duration" -> CodeType("DurationCodeType", "", "", <<>>)
      [] t.kind = "Enum" -> CodeType("EnumCodeType", t.name, "", <<>>)
      [] t.kind = "Object" -> CodeType("ObjectCodeType", t.name, t.imp, <<>>)
      [] t.kind = "Record" -> CodeType("RecordCodeType", t.name, "", <<>>)
      [] t.kind = "CallbackInterface" ->
           CodeType("CallbackInterfaceCodeType", t.name, "", <<>>)
      [] t.kind = "Optional" ->
           CodeType("OptionalCodeType", "", "", <<t.args[1]>>)
      [] t.kind = "Sequence" ->
           CodeType("SequenceCodeType", "", "", <<t.args[1]>>)
      [] t.kind = "Map" ->
           CodeType("MapCodeType", "", "", <<t.args[1], t.args[2]>>)
      [] t.kind = "Custom" ->
           IF t.args[1].kind = "String"
           THEN CodeType("StringCodeType", "", "", <<>>)
           ELSE CodeType("Int64CodeType", "", "", <<>>)

\* as_codetype with Float32 resolved to the descriptor of Float64
as_codetype_one_float(t) ==
    CASE t.kind \in {"UInt8", "Int8"} -> CodeType("Int8CodeType", "", "", <<>>)
      [] t.kind \in {"UInt16", "Int16"} ->
           CodeType("Int16CodeType", "", "", <<>>)
      [] t.kind \in {"UInt32", "Int32"} ->
           CodeType("Int32CodeType", "", "", <<>>)
      [] t.kind \in {"UInt64", "Int64"} ->
           CodeType("Int64CodeType", "", "", <<>>)
      [] t.kind \in {"Float32", "Float64"} ->
           CodeType("Float64CodeType", "", "", <<>>)
      [] t.kind = "Boolean" -> CodeType("BooleanCodeType", "", "", <<>>)
      [] t.kind = "String" -> CodeType("StringCodeType", "", "", <<>>)
      [] t.kind = "Bytes" -> CodeType("BytesCodeType", "", "", <<>>)
      [] t.kind = "Timestamp" -> CodeType("TimestampCodeType", "", "", <<>>)
      [] t.kind = "Duration" -> CodeType("DurationCodeType", "", "", <<>>)
      [] t.kind = "Enum" -> CodeType("EnumCodeType", t.name, "", <<>>)
      [] t.kind = "Object" -> CodeType("ObjectCodeType", t.name, t.imp, <<>>)
      [] t.kind = "Record" -> CodeType("RecordCodeType", t.name, "", <<>>)
      [] t.kind = "CallbackInterface" ->
           CodeType("CallbackInterfaceCodeType", t.name, "", <<>>)
      [] t.kind = "Optional" ->
           CodeType("OptionalCodeType", "", "", <<t.args[1]>>)
      [] t.kind = "Sequence" ->
           CodeType("SequenceCodeType", "", "", <<t.args[1]>>)
      [] t.kind = "Map" ->
           CodeType("MapCodeType", "", "", <<t.args[1], t.args[2]>>)
      [] t.kind = "Custom" -> CodeType("CustomCodeType", t.name, "", <<>>)

\* impl AsCodeType for Type: one arm per variant, no catch-all
as_codetype(t) ==
    CASE t.kind \in {"UInt8", "Int8"} -> CodeType("Int8CodeType", "", "", <<>>)
      [] t.kind \in {"UInt16", "Int16"} ->
           CodeType("Int16CodeType", "", "", <<>>)
      [] t.kind \in {"UInt32", "Int32"} ->
           CodeType("Int32CodeType", "", "", <<>>)
      [] t.kind \in {"UInt64", "Int64"} ->
           CodeType("Int64CodeType", "", "", <<>>)
      [] t.kind = "Float32" -> CodeType("Float32CodeType", "", "", <<>>)
      [] t.kind = "Float64" -> CodeType("Float64CodeType", "", "", <<>>)
      [] t.kind = "Boolean" -> CodeType("BooleanCodeType", "", "", <<>>)
      [] t.kind = "String" -> CodeType("StringCodeType", "", "", <<>>)
      [] t.kind = "Bytes" -> CodeType("BytesCodeType", "", "", <<>>)
      [] t.kind = "Timestamp" -> CodeType("TimestampCodeType", "", "", <<>>)
      [] t.kind = "Duration" -> CodeType("DurationCodeType", "", "", <<>>)
      [] t.kind = "Enum" -> CodeType("EnumCodeType", t.name, "", <<>>)
      [] t.kind = "Object" -> CodeType("ObjectCodeType", t.name, t.imp, <<>>)
      [] t.kind = "Record" -> CodeType("RecordCodeType", t.name, "", <<>>)
      [] t.kind = "CallbackInterface" ->
           CodeType("CallbackInterfaceCodeType", t.name, "", <<>>)
      [] t.kind = "Optional" ->
           CodeType("OptionalCodeType", "", "", <<t.args[1]>>)
      [] t.kind = "Sequence" ->
           CodeType("SequenceCodeType", "", "", <<t.args[1]>>)
      [] t.kind = "Map" ->
           CodeType("MapCodeType", "", "", <<t.args[1], t.args[2]>>)
      [] t.kind = "Custom" -> CodeType("CustomCodeType", t.name, "", <<>>)

\* JavaCodeOracle::find
find(t) == as_codetype(t)

(***************************************************************************)
(* The descriptors' methods.  The structs live in the submodules           *)
(* primitives, miscellany, enum_, object, record, callback_interface,      *)
(* compounds and custom: a composite's names are composed from the names   *)
(* of its inner types, resolved through the registry.                      *)
(***************************************************************************)
RECURSIVE CodeType_canonical_name(_)
CodeType_canonical_name(ct) ==
    CASE ct.codetype = "Int8CodeType" -> "Byte"
      [] ct.codetype = "Int16CodeType" -> "Short"
      [] ct.codetype = "Int32CodeType" -> "Integer"
      [] ct.codetype = "Int64CodeType" -> "Long"
      [] ct.codetype = "Float32CodeType" -> "Float"
      [] ct.codetype = "Float64CodeType" -> "Double"
      [] ct.codetype = "BooleanCodeType" -> "Boolean"
      [] ct.codetype = "StringCodeType" -> "String"
      [] ct.codetype = "BytesCodeType" -> "ByteArray"
      [] ct.codetype = "TimestampCodeType" -> "Timestamp"
      [] ct.codetype = "DurationCodeType" -> "Duration"
      [] ct.codetype \in {"EnumCodeType", "ObjectCodeType", "RecordCodeType",
                          "CallbackInterfaceCodeType", "CustomCodeType"} ->
           "Type" \o ct.id
      [] ct.codetype = "OptionalCodeType" ->
           "Optional" \o CodeType_canonical_name(find(ct.inner[1]))
      [] ct.codetype = "SequenceCodeType" ->
           "Sequence" \o CodeType_canonical_name(find(ct.inner[1]))
      [] ct.codetype = "MapCodeType" ->
           "Map" \o CodeType_canonical_name(find(ct.inner[1]))
                 \o CodeType_canonical_name(find(ct.inner[2]))

RECURSIVE CodeType_type_label(_, _, _)
CodeType_type_label(ct, ci, config) ==
    CASE ct.codetype = "Int8CodeType" -> "Byte"
      [] ct.codetype = "Int16CodeType" -> "Short"
      [] ct.codetype = "Int32CodeType" -> "Integer"
      [] ct.codetype = "Int64CodeType" -> "Long"
      [] ct.codetype = "Float32CodeType" -> "Float"
      [] ct.codetype = "Float64CodeType" -> "Double"
      [] ct.codetype = "BooleanCodeType" -> "Boolean"
      [] ct.codetype = "StringCodeType" -> "String"
      [] ct.codetype = "BytesCodeType" -> "byte[]"
      [] ct.codetype = "TimestampCodeType" -> "java.time.Instant"
      [] ct.codetype = "DurationCodeType" -> "java.time.Duration"
      [] ct.codetype \in {"EnumCodeType", "ObjectCodeType", "RecordCodeType",
                          "CallbackInterfaceCodeType", "CustomCodeType"} ->
           class_name(ci, ct.id)
      [] ct.codetype = "OptionalCodeType" ->
           CodeType_type_label(find(ct.inner[1]), ci, config)
      [] ct.codetype = "SequenceCodeType" ->
           "List<" \o CodeType_type_label(find(ct.inner[1]), ci, config)
                   \o ">"
      [] ct.codetype = "MapCodeType" ->
           "Map<" \o CodeType_type_label(find(ct.inner[1]), ci, config)
                  \o ", "
                  \o CodeType_type_label(find(ct.inner[2]), ci, config)
                  \o ">"

\* a filter's Result<String, askama::Error>, or the panic that ended it
ResultOk(v) == [tag |-> "Ok", val |-> v]

ResultErr(msg) == [tag |-> "Err", val |-> msg]

ResultPanic(msg) == [tag |-> "panic", val |-> msg]

\* CodeType::literal, the trait's default body
CodeType_literal(ct, literal, ci, config) ==
    ResultPanic("Unimplemented for " \o CodeType_type_label(ct, ci, config))

CodeType_ffi_converter_name(ct) ==
    "FfiConverter" \o CodeType_canonical_name(ct)

\* filters::type_name, filters::canonical_name
type_name(as_ct, ci, config) ==
    ResultOk(CodeType_type_label(as_codetype(as_ct), ci, config))

canonical_name(as_ct) ==
    ResultOk(CodeType_canonical_name(as_codetype(as_ct)))

(***************************************************************************)
(* The IR types the registry is run on: every variant, nested up to        *)
(* MaxTypeDepth, which reaches Optional(Sequence(Map(K, V))).              *)
(***************************************************************************)
MaxTypeDepth == 3

TypeDecls ==
    { [name |-> "Point", module_path |-> "crate_a"],
      [name |-> "line_segment", module_path |-> "crate_b"],
      [name |-> "IOError", module_path |-> "crate_b::sub"] }

ObjectImpls == {"Struct", "Trait", "CallbackTrait"}

Prim(kind) == Type(kind, "", "", "", <<>>)

BaseTypes ==
    {Prim(k) : k \in PrimitiveKinds \cup {"Timestamp", "Duration"}}
    \cup {Type(k, d.name, d.module_path, "", <<>>) :
            k \in {"Enum", "Record", "CallbackInterface"}, d \in TypeDecls}
    \cup {Type("Object", d.name, d.module_path, imp, <<>>) :
            d \in TypeDecls, imp \in ObjectImpls}
    \cup {Type("Custom", d.name, d.module_path, "", <<Prim(b)>>) :
            d \in TypeDecls, b \in {"String", "Int64"}}

MapKeyTypes ==
    {Prim(k) : k \in {"UInt8", "Int8", "Int32", "String", "Float32"}}
    \cup {Type("Record", d.name, d.module_path, "", <<>>) : d \in TypeDecls}

RECURSIVE TypesOfDepth(_)
TypesOfDepth(d) ==
    IF d = 0 THEN BaseTypes
    ELSE {Type(k, "", "", "", <<t>>) :
            k \in {"Optional", "Sequence"}, t \in TypesOfDepth(d - 1)}
         \cup (IF d = 1
               THEN {Type("Map", "", "", "", <<k, v>>) :
                        k \in MapKeyTypes, v \in BaseTypes}
               ELSE {})

Types == UNION {TypesOfDepth(d) : d \in 0..MaxTypeDepth}

(***************************************************************************)
(* Object names.  obj is an interface::Object: its name and its imp.       *)
(***************************************************************************)
has_callback_interface(obj) == obj.imp = "CallbackTrait"

\* object_names returning the class name for both
object_names_same(ci, obj) ==
    <<class_name(ci, obj.name), class_name(ci, obj.name)>>

object_names(ci, obj) ==
    LET class_name_ == class_name(ci, obj.name)
    IN  IF has_callback_interface(obj)
        THEN <<class_name_, class_name_ \o "Impl">>
        ELSE <<class_name_ \o "Interface", class_name_>>

(***************************************************************************)
(* Enum discriminants.  A literal is a LiteralMetadata: its kind and, for  *)
(* UInt and Int, its value.  e is an interface::Enum: its name, the names  *)
(* of its variants, the type of its discriminants (<<>> when the enum      *)
(* declares no repr) and, per variant, its discriminant.                   *)
(***************************************************************************)
Literal(kind, v) == [kind |-> kind, v |-> v]

\* u64::to_string / i64::to_string
RECURSIVE nat_to_string(_)
nat_to_string(n) ==
    IF n < 10 THEN SubSeq(Digits, n + 1, n + 1)
    ELSE nat_to_string(n \div 10) \o SubSeq(Digits, (n % 10) + 1, (n % 10) + 1)

to_string(v) == IF v < 0 THEN "-" \o nat_to_string(-v) ELSE nat_to_string(v)

\* int_literal accepting every repr
int_literal_any_repr(t, base10) ==
    IF t # <<>> /\ t[1].kind \in UnsignedIntKinds
    THEN ResultOk(base10 \o "u")
    ELSE ResultOk(base10)

int_literal(t, base10) ==
    IF t # <<>>
    THEN CASE t[1].kind \in SignedIntKinds -> ResultOk(base10)
           [] t[1].kind \in UnsignedIntKinds -> ResultOk(base10 \o "u")
           [] OTHER -> ResultErr("Only ints are supported.")
    ELSE ResultErr("Enum hasn't defined a repr")

\* Enum::variant_discr: an error for an index past the last variant
variant_discr(e, index) ==
    IF index < Len(e.discrs) THEN ResultOk(e.discrs[index + 1])
    ELSE ResultErr("Invalid variant index")

variant_discr_type(e) == e.discr_type

variant_discr_literal(e, index) ==
    LET literal == variant_discr(e, index)
    IN  IF literal.tag = "Err" THEN ResultPanic("invalid index")
        ELSE CASE literal.val.kind \in {"UInt", "Int"} ->
                    int_literal(variant_discr_type(e),
                                to_string(literal.val.v))
               [] OTHER -> ResultErr("Only ints are supported.")

(***************************************************************************)
(* Asynchronous callables.  callable is a Callable: is_async, return_type  *)
(* (<<>> when it declares none) and the name of its rust-future complete   *)
(* function.                                                               *)
(***************************************************************************)
\* Type::module_path
Type_module_path(t) ==
    IF t.kind \in {"Enum", "Object", "Record", "CallbackInterface", "Custom"}
    THEN <<t.module_path>>
    ELSE <<>>

\* ComponentInterface::is_external
is_external(ci, t) ==
    /\ Type_module_path(t) # <<>>
    /\ crate_root(Type_module_path(t)[1]) # ci.crate_name

\* impl From<&Type> for FfiType
RECURSIVE FfiType_from(_)
FfiType_from(t) ==
    CASE t.kind \in ScalarKinds -> FfiType(t.kind, "", <<>>, <<>>)
      [] t.kind = "Boolean" -> FfiType("Int8", "", <<>>, <<>>)
      [] t.kind \in {"String", "Bytes", "Timestamp", "Duration", "Optional",
                     "Sequence", "Map"} ->
           FfiType("RustBuffer", "", <<>>, <<>>)
      [] t.kind = "Object" -> FfiType("RustArcPtr", t.name, <<>>, <<>>)
      [] t.kind = "CallbackInterface" -> FfiType("UInt64", "", <<>>, <<>>)
      [] t.kind \in {"Enum", "Record"} ->
           FfiType("RustBuffer", "",
                   <<[name |-> t.name, module_path |-> t.module_path]>>, <<>>)
      [] t.kind = "Custom" ->
           IF FfiType_from(t.args[1]).kind = "RustBuffer"
           THEN FfiType("RustBuffer", "",
                    <<[name |-> t.name, module_path |-> t.module_path]>>,
                    <<>>)
           ELSE FfiType_from(t.args[1])

\* async_inner_return_type with Java's void for no return type
async_inner_return_type_void(callable, ci, config) ==
    IF callable.return_type = <<>> THEN ResultOk("void")
    ELSE type_name(callable.return_type[1], ci, config)

async_inner_return_type(callable, ci, config) ==
    IF callable.return_type = <<>> THEN ResultOk("Void")
    ELSE type_name(callable.return_type[1], ci, config)

async_return_type(callable, ci, config) ==
    LET is_async == callable.is_async
        inner_type == async_inner_return_type(callable, ci, config)
    IN  IF inner_type.tag # "Ok" THEN inner_type
        ELSE IF is_async
             THEN ResultOk("CompletableFuture<" \o inner_type.val \o ">")
             ELSE ResultOk(inner_type.val)

async_complete(callable, ci, config) ==
    LET ffi_func == callable.ffi_rust_future_complete
        call == "UniffiLib.getInstance()." \o ffi_func
                    \o "(future, continuation)"
    IN  IF callable.return_type # <<>>
           /\ is_external(ci, callable.return_type[1])
        THEN LET ffi_type == FfiType_from(callable.return_type[1])
             IN  IF ffi_type.kind = "RustBuffer" /\ ffi_type.ext # <<>>
                 THEN LET rust_buffer ==
                            external_type_package_name(config,
                                ffi_type.ext[1].module_path,
                                ffi_type.ext[1].name) \o ".RustBuffer"
                      IN  ResultOk(
                            "(future, continuation) -> {\n"
                            \o "                    var result = " \o call
                            \o ";\n"
                            \o "                    return " \o rust_buffer
                            \o ".create(result.capacity, result.len, result.data);\n"
                            \o "                }")
                 ELSE ResultOk(call)
        ELSE ResultOk("(future, continuation) -> " \o call)

(***************************************************************************)
(* The inputs the filters are run on.                                      *)
(***************************************************************************)
Interfaces ==
    [crate_name : CrateNames, errors : {{}, {"IOError"}}]

ObjectNames == {"Point", "line_segment", "IOError", "class", "_", "Impl"}

Objects == [name : ObjectNames, imp : ObjectImpls]

MaxDiscr == 12

Literals ==
    {Literal("UInt", v) : v \in 0..MaxDiscr}
    \cup {Literal("Int", v) : v \in (0 - MaxDiscr)..MaxDiscr}
    \cup {Literal(k, 0) : k \in {"Boolean", "String", "Float", "None"}}

DiscrTypes ==
    {<<>>} \cup {<<Prim(k)>> : k \in PrimitiveKinds}

Enums ==
    [name : {"Color"}, variants : {<<"Red">>}, discr_type : DiscrTypes,
     discrs : {<<l>> : l \in Literals}]

MaxVariantIndex == 1

FfiFuncNames == {"ffi_geometry_rust_future_complete"}

ReturnTypes == {<<>>} \cup {<<t>> : t \in TypesOfDepth(0) \cup TypesOfDepth(1)}

Callables ==
    [is_async : BOOLEAN, return_type : ReturnTypes,
     ffi_rust_future_complete : FfiFuncNames]

(***************************************************************************)
(* Callables that throw.  callable is a Callable: its name and throws_type *)
(* (<<>> when it throws nothing).                                          *)
(***************************************************************************)
can_render_callable(callable, ci) ==
    IF callable.throws_type # <<>>
    THEN ~is_external(ci, callable.throws_type[1])
    ELSE TRUE

ThrowingCallables ==
    [name : {"read_file", "parse"},
     throws_type :
        {<<>>} \cup {<<t>> : t \in {b \in BaseTypes : b.kind \in {"Enum", "Object"}}}]

(***************************************************************************)
(* potentially_add_external_package.  ci.types is the interface's type     *)
(* universe, looked up by name; the result carries, next to the returned   *)
(* string, the calls made to config.external_type_package_name.            *)
(***************************************************************************)
\* ComponentInterface::get_type: <<>> is None, <<t>> is Some(t)
get_type(ci, name) ==
    LET found == {t \in ci.types : t.name = name}
    IN  IF found = {} THEN <<>> ELSE <<CHOOSE t \in found : TRUE>>

\* the package prefixed to every known type, external or not
potentially_add_external_package_known(config, ci, name, display_name) ==
    LET typ == get_type(ci, name)
    IN  IF typ # <<>>
        THEN [value |->
                 external_type_package_name(config, typ[1].module_path,
                                            display_name)
                    \o "." \o display_name,
              resolver_calls |->
                 <<[module_path |-> typ[1].module_path,
                    namespace |-> display_name]>>]
        ELSE [value |-> display_name, resolver_calls |-> <<>>]

potentially_add_external_package(config, ci, name, display_name) ==
    LET typ == get_type(ci, name)
    IN  IF typ # <<>>
        THEN IF is_external(ci, typ[1])
             THEN [value |->
                      external_type_package_name(config,
                          Type_module_path(typ[1])[1], display_name)
                         \o "." \o display_name,
                   resolver_calls |->
                      <<[module_path |-> Type_module_path(typ[1])[1],
                         namespace |-> display_name]>>]
             ELSE [value |-> display_name, resolver_calls |-> <<>>]
        ELSE [value |-> display_name, resolver_calls |-> <<>>]

InterfacesWithTypes ==
    [crate_name : CrateNames, errors : {{}},
     types :
        { {},
          {Type("Record", "Point", "crate_a", "", <<>>),
           Type("Enum", "line_segment", "crate_b", "", <<>>)},
          {Type("Record", "Point", "crate_a", "", <<>>),
           Type("Enum", "line_segment", "crate_b", "", <<>>),
           Type("Object", "IOError", "crate_b::sub", "Struct", <<>>)} }]

(***************************************************************************)
(* Custom-type converters.  self is a CustomTypeConfig: the templates      *)
(* lift and lower and their older names into_custom and from_custom.       *)
(***************************************************************************)
\* lift without the fallback to into_custom
CustomTypeConfig_lift_no_backcompat(self, name) ==
    str_replace(self.lift, "{}", name)

CustomTypeConfig_lift(self, name) ==
    LET converter == IF self.lift = "" THEN self.into_custom ELSE self.lift
    IN  str_replace(converter, "{}", name)

CustomTypeConfig_lower(self, name) ==
    LET converter == IF self.lower = "" THEN self.from_custom ELSE self.lower
    IN  str_replace(converter, "{}", name)

Converters ==
    {"", "{}", "new URL({})", "{}.toString()", "{} == null ? null : wrap({})",
     "DEFAULT", "{{}}"}

CustomTypeConfigs ==
    [into_custom : Converters, lift : Converters,
     from_custom : {"", "{}.toString()"}, lower : {"", "{}.toString()"}]
    \cup [into_custom : {"", "new URL({})"}, lift : {"", "new URL({})"},
          from_custom : Converters, lower : Converters]

(***************************************************************************)
(* State.                                                                  *)
(*   run_pc, type_renderer, calls: the generation runs (generate_bindings) *)
(*     and, per run, its TypeRenderer and the include_once_check calls     *)
(*     made so far with their results;                                     *)
(*   san_*: one call of a sanitizer method, step by step;                  *)
(*   ffi_*: one call of a method of the FFI-type table;                    *)
(*   flt_*: one call of the registry or of a template filter.              *)
(***************************************************************************)
VARIABLES run_pc, type_renderer, calls,
          san_pc, san_call, san_val, san_todo, san_done,
          ffi_pc, ffi_call, ffi_result,
          flt_pc, flt_call, flt_result

run_vars == <<run_pc, type_renderer, calls>>

san_vars == <<san_pc, san_call, san_val, san_todo, san_done>>

ffi_vars == <<ffi_pc, ffi_call, ffi_result>>

flt_vars == <<flt_pc, flt_call, flt_result>>

vars == <<run_vars, san_vars, ffi_vars, flt_vars>>

(***************************************************************************)
(* Generation runs.  generate_bindings calls JavaWrapper::new, which makes *)
(* a TypeRenderer, renders Types.java with it (the template calls          *)
(* include_once_check), unwraps the result and drops the renderer; then    *)
(* the wrapper template is rendered and its result returned with context.  *)
(***************************************************************************)
Runs == {"run1", "run2"}

HelperNames == {"RustBufferHelper", "FfiConverterTypePoint", "OptionalHelper"}

MaxCalls == 3

NoRenderer == [alive |-> FALSE, include_once_names |-> {}]

\* TypeRenderer::new
TypeRenderer_new == [alive |-> TRUE, include_once_names |-> {}]

\* a slip: the check answers true whether or not the name was there
include_once_check_result_always(renderer, name) == TRUE

\* HashSet::insert: whether the value was newly inserted
include_once_check_result(renderer, name) ==
    name \notin renderer.include_once_names

\* a slip: the set is overwritten instead of inserted into
include_once_check_effect_overwrite(renderer, name) ==
    [renderer EXCEPT !.include_once_names = {name}]

include_once_check_effect(renderer, name) ==
    [renderer EXCEPT !.include_once_names = @ \cup {name}]

RunsOff ==
    /\ run_pc = [r \in Runs |-> "idle"]
    /\ type_renderer = [r \in Runs |-> NoRenderer]
    /\ calls = [r \in Runs |-> <<>>]

GenerateBindings(r) ==
    /\ run_pc[r] \in {"idle", "returned_ok", "returned_err"}
    /\ run_pc' = [run_pc EXCEPT ![r] = "render_types"]
    /\ type_renderer' = [type_renderer EXCEPT ![r] = TypeRenderer_new]
    /\ calls' = [calls EXCEPT ![r] = <<>>]
    /\ UNCHANGED <<san_vars, ffi_vars, flt_vars>>

\* a slip: one set shared by every renderer (a static instead of a field)
IncludeOnceCheck_shared(r, name) ==
    /\ run_pc[r] = "render_types"
    /\ Len(calls[r]) < MaxCalls
    /\ type_renderer' = [q \in Runs |->
                           IF type_renderer[q].alive
                           THEN include_once_check_effect(type_renderer[q], name)
                           ELSE type_renderer[q]]
    /\ calls' = [calls EXCEPT ![r] = Append(@,
                   [name |-> name,
                    result |-> include_once_check_result(type_renderer[r], name)])]
    /\ UNCHANGED <<run_pc, san_vars, ffi_vars, flt_vars>>

IncludeOnceCheck(r, name) ==
    /\ run_pc[r] = "render_types"
    /\ Len(calls[r]) < MaxCalls
    /\ type_renderer' = [type_renderer EXCEPT
                           ![r] = include_once_check_effect(@, name)]
    /\ calls' = [calls EXCEPT ![r] = Append(@,
                   [name |-> name,
                    result |-> include_once_check_result(type_renderer[r], name)])]
    /\ UNCHANGED <<run_pc, san_vars, ffi_vars, flt_vars>>

\* a slip: the renderer is stored in the wrapper and outlives the call
RenderTypesOk_keep(r) ==
    /\ run_pc[r] = "render_types"
    /\ run_pc' = [run_pc EXCEPT ![r] = "render_wrapper"]
    /\ UNCHANGED <<type_renderer, calls, san_vars, ffi_vars, flt_vars>>

\* type_renderer.render().unwrap() returned: JavaWrapper::new ends and the
\* renderer goes out of scope
RenderTypesOk(r) ==
    /\ run_pc[r] = "render_types"
    /\ run_pc' = [run_pc EXCEPT ![r] = "render_wrapper"]
    /\ type_renderer' = [type_renderer EXCEPT ![r] = NoRenderer]
    /\ UNCHANGED <<calls, san_vars, ffi_vars, flt_vars>>

\* type_renderer.render() returned Err: unwrap() panics
RenderTypesErr(r) ==
    /\ run_pc[r] = "render_types"
    /\ run_pc' = [run_pc EXCEPT ![r] = "panicked"]
    /\ type_renderer' = [type_renderer EXCEPT ![r] = NoRenderer]
    /\ UNCHANGED <<calls, san_vars, ffi_vars, flt_vars>>

\* JavaWrapper::render() returned Ok(text)
RenderWrapperOk(r) ==
    /\ run_pc[r] = "render_wrapper"
    /\ run_pc' = [run_pc EXCEPT ![r] = "returned_ok"]
    /\ UNCHANGED <<type_renderer, calls, san_vars, ffi_vars, flt_vars>>

\* JavaWrapper::render() returned Err: .context(...) and return
RenderWrapperErr(r) ==
    /\ run_pc[r] = "render_wrapper"
    /\ run_pc' = [run_pc EXCEPT ![r] = "returned_err"]
    /\ UNCHANGED <<type_renderer, calls, san_vars, ffi_vars, flt_vars>>

(***************************************************************************)
(* One sanitizer call: the method's transformations, one per step.         *)
(***************************************************************************)
SanOff ==
    /\ san_pc = "off"
    /\ san_call = [op |-> "", nm |-> "", ci |-> [errors |-> {}]]
    /\ san_val = ""
    /\ san_todo = <<>>
    /\ san_done = <<>>

SanCalled ==
    /\ san_pc = "called"
    /\ \E op \in SanitizerOps, nm \in RawNames, is_err \in BOOLEAN :
          /\ is_err => op = "class_name"
          /\ san_call = [op |-> op, nm |-> nm,
                         ci |-> [errors |-> IF is_err THEN {nm} ELSE {}]]
    /\ san_val = san_call.nm
    /\ san_todo = sanitizer_steps(san_call.op, san_call.ci, san_call.nm)
    /\ san_done = <<>>

SanNextStepIs(kinds) ==
    /\ san_pc = "called"
    /\ san_todo # <<>>
    /\ Head(san_todo) \in kinds

SanAdvance ==
    /\ san_val' = apply_step(Head(san_todo), san_val)
    /\ san_todo' = Tail(san_todo)
    /\ san_done' = Append(san_done, Head(san_todo))
    /\ UNCHANGED <<san_pc, san_call, run_vars, ffi_vars, flt_vars>>

SanCaseConvert ==
    /\ SanNextStepIs({"to_upper_camel_case", "to_lower_camel_case",
                      "to_shouty_snake_case"})
    /\ SanAdvance

SanConvertErrorSuffix ==
    /\ SanNextStepIs({"convert_error_suffix"})
    /\ SanAdvance

SanFixupKeyword ==
    /\ SanNextStepIs({"fixup_keyword"})
    /\ SanAdvance

SanFormat ==
    /\ SanNextStepIs({"format_set", "format_Uniffi"})
    /\ SanAdvance

SanReturn ==
    /\ san_pc = "called"
    /\ san_todo = <<>>
    /\ san_pc' = "returned"
    /\ UNCHANGED <<san_call, san_val, san_todo, san_done, run_vars, ffi_vars, flt_vars>>

(***************************************************************************)
(* One call of the FFI-type table.                                         *)
(***************************************************************************)
FfiOff ==
    /\ ffi_pc = "off"
    /\ ffi_call = [op |-> "", ffi_type |-> FfiType("VoidPointer", "", <<>>, <<>>),
                   prefer_primitive |-> FALSE,
                   config |-> [external_packages |-> [c \in {} |-> ""]],
                   ci |-> [crate_name |-> ""]]
    /\ ffi_result = Ok("")

FfiCalled ==
    /\ ffi_pc = "called"
    /\ \E op \in FfiOps, t \in FfiTypes, pp \in BOOLEAN,
          config \in Configs, crate \in CrateNames :
          /\ pp => op = "ffi_type_label_by_value"
          /\ ffi_call = [op |-> op, ffi_type |-> t, prefer_primitive |-> pp,
                         config |-> config, ci |-> [crate_name |-> crate]]
    /\ ffi_result = Ok("")

FfiCalledOp(op) ==
    /\ ffi_pc = "called"
    /\ ffi_call.op = op

FfiReturn(result) ==
    /\ ffi_pc' = IF result.panic THEN "panicked" ELSE "returned"
    /\ ffi_result' = result
    /\ UNCHANGED <<ffi_call, run_vars, san_vars, flt_vars>>

FfiTypeLabel ==
    /\ FfiCalledOp("ffi_type_label")
    /\ FfiReturn(ffi_type_label(ffi_call.ffi_type, ffi_call.config,
                                ffi_call.ci))

FfiTypePrimitive ==
    /\ FfiCalledOp("ffi_type_primitive")
    /\ FfiReturn(ffi_type_primitive(ffi_call.ffi_type, ffi_call.config,
                                    ffi_call.ci))

FfiTypeLabelByReference ==
    /\ FfiCalledOp("ffi_type_label_by_reference")
    /\ FfiReturn(ffi_type_label_by_reference(ffi_call.ffi_type,
                                             ffi_call.config, ffi_call.ci))

FfiTypeLabelByValue ==
    /\ FfiCalledOp("ffi_type_label_by_value")
    /\ FfiReturn(ffi_type_label_by_value(ffi_call.ffi_type,
                                         ffi_call.prefer_primitive,
                                         ffi_call.config, ffi_call.ci))

FfiTypeLabelForFfiStruct ==
    /\ FfiCalledOp("ffi_type_label_for_ffi_struct")
    /\ FfiReturn(ffi_type_label_for_ffi_struct(ffi_call.ffi_type,
                                               ffi_call.config, ffi_call.ci))

FfiDefaultValue ==
    /\ FfiCalledOp("ffi_default_value")
    /\ FfiReturn(ffi_default_value(ffi_call.ffi_type))

(***************************************************************************)
(* One call of the registry or of a template filter.                       *)
(***************************************************************************)
FltOff ==
    /\ flt_pc = "off"
    /\ flt_call = [op |-> ""]
    /\ flt_result = ResultOk("")

FltCalled ==
    /\ flt_pc = "called"
    /\ flt_result = ResultOk("")
    /\ \/ \E op \in {"find", "canonical_name"}, t \in Types :
             flt_call = [op |-> op, as_ct |-> t]
       \/ \E t \in Types, ci \in Interfaces, config \in Configs :
             flt_call = [op |-> "type_name", as_ct |-> t, ci |-> ci,
                         config |-> config]
       \/ \E t \in BaseTypes, l \in Literals, ci \in Interfaces :
             /\ l.v \in {0, 1}
             /\ flt_call = [op |-> "literal", as_ct |-> t, literal |-> l,
                            ci |-> ci, config |-> CHOOSE c \in Configs : TRUE]
       \/ \E obj \in Objects, ci \in Interfaces :
             flt_call = [op |-> "object_names", ci |-> ci, obj |-> obj]
       \/ \E e \in Enums, index \in 0..MaxVariantIndex :
             flt_call = [op |-> "variant_discr_literal", e |-> e,
                         index |-> index]
       \/ \E config \in Configs, mp \in ModulePaths \cup {"crate_c::a::b"},
             namespace \in {"Point", "geometry"} :
             flt_call = [op |-> "external_type_package_name",
                         config |-> config, module_path |-> mp,
                         namespace |-> namespace]
       \/ \E op \in {"async_return_type", "async_complete"},
             callable \in Callables, ci \in Interfaces, config \in Configs :
             flt_call = [op |-> op, callable |-> callable, ci |-> ci,
                         config |-> config]
       \/ \E callable \in ThrowingCallables, ci \in Interfaces :
             flt_call = [op |-> "can_render_callable", callable |-> callable,
                         ci |-> ci]
       \/ \E config \in Configs, ci \in InterfacesWithTypes,
             name \in {"Point", "line_segment", "IOError", "Missing"},
             display_name \in {"Point", "LineSegment", "IOException"} :
             flt_call = [op |-> "potentially_add_external_package",
                         config |-> config, ci |-> ci,
                         type_name |-> name,
                         display_name |-> display_name]
       \/ \E op \in {"lift", "lower"}, self \in CustomTypeConfigs,
             name \in {"v", "record.url", "{}"} :
             flt_call = [op |-> op, self |-> self, name |-> name]

FltCalledOp(op) ==
    /\ flt_pc = "called"
    /\ flt_call.op = op

FltReturn(result) ==
    /\ flt_pc' = IF result.tag = "panic" THEN "panicked" ELSE "returned"
    /\ flt_result' = result
    /\ UNCHANGED <<flt_call, run_vars, san_vars, ffi_vars>>

Find ==
    /\ FltCalledOp("find")
    /\ FltReturn(ResultOk(find(flt_call.as_ct)))

CanonicalName ==
    /\ FltCalledOp("canonical_name")
    /\ FltReturn(canonical_name(flt_call.as_ct))

TypeName ==
    /\ FltCalledOp("type_name")
    /\ FltReturn(type_name(flt_call.as_ct, flt_call.ci, flt_call.config))

DefaultLiteral ==
    /\ FltCalledOp("literal")
    /\ FltReturn(CodeType_literal(find(flt_call.as_ct), flt_call.literal,
                                  flt_call.ci, flt_call.config))

ObjectNames_ ==
    /\ FltCalledOp("object_names")
    /\ FltReturn(ResultOk(object_names(flt_call.ci, flt_call.obj)))

VariantDiscrLiteral ==
    /\ FltCalledOp("variant_discr_literal")
    /\ FltReturn(variant_discr_literal(flt_call.e, flt_call.index))

ExternalTypePackageName ==
    /\ FltCalledOp("external_type_package_name")
    /\ FltReturn(ResultOk(external_type_package_name(flt_call.config,
                              flt_call.module_path, flt_call.namespace)))

AsyncReturnType ==
    /\ FltCalledOp("async_return_type")
    /\ FltReturn(async_return_type(flt_call.callable, flt_call.ci,
                                   flt_call.config))

AsyncComplete ==
    /\ FltCalledOp("async_complete")
    /\ FltReturn(async_complete(flt_call.callable, flt_call.ci,
                                flt_call.config))

CanRenderCallable ==
    /\ FltCalledOp("can_render_callable")
    /\ FltReturn(ResultOk(can_render_callable(flt_call.callable, flt_call.ci)))

PotentiallyAddExternalPackage ==
    /\ FltCalledOp("potentially_add_external_package")
    /\ FltReturn(ResultOk(potentially_add_external_package(flt_call.config,
                              flt_call.ci, flt_call.type_name,
                              flt_call.display_name)))

Lift ==
    /\ FltCalledOp("lift")
    /\ FltReturn(ResultOk(CustomTypeConfig_lift(flt_call.self, flt_call.name)))

Lower ==
    /\ FltCalledOp("lower")
    /\ FltReturn(ResultOk(CustomTypeConfig_lower(flt_call.self,
                                                 flt_call.name)))

(***************************************************************************)
(* Specifications: the generation runs, the sanitizer, the FFI-type table, *)
(* the registry and the filters.                                           *)
(***************************************************************************)
RunInit == RunsOff /\ SanOff /\ FfiOff /\ FltOff

RunNext ==
    \E r \in Runs :
        \/ GenerateBindings(r)
        \/ \E name \in HelperNames : IncludeOnceCheck(r, name)
        \/ RenderTypesOk(r)
        \/ RenderTypesErr(r)
        \/ RenderWrapperOk(r)
        \/ RenderWrapperErr(r)

RunSpec == RunInit /\ [][RunNext]_vars

SanInit == RunsOff /\ SanCalled /\ FfiOff /\ FltOff

SanNext ==
    \/ SanCaseConvert
    \/ SanConvertErrorSuffix
    \/ SanFixupKeyword
    \/ SanFormat
    \/ SanReturn

SanSpec == SanInit /\ [][SanNext]_vars

FfiInit == RunsOff /\ SanOff /\ FfiCalled /\ FltOff

FfiNext ==
    \/ FfiTypeLabel
    \/ FfiTypePrimitive
    \/ FfiTypeLabelByReference
    \/ FfiTypeLabelByValue
    \/ FfiTypeLabelForFfiStruct
    \/ FfiDefaultValue

FfiSpec == FfiInit /\ [][FfiNext]_vars

FilterInit == RunsOff /\ SanOff /\ FfiOff /\ FltCalled

FilterNext ==
    \/ Find
    \/ CanonicalName
    \/ TypeName
    \/ DefaultLiteral
    \/ ObjectNames_
    \/ VariantDiscrLiteral
    \/ ExternalTypePackageName
    \/ AsyncReturnType
    \/ AsyncComplete
    \/ CanRenderCallable
    \/ PotentiallyAddExternalPackage
    \/ Lift
    \/ Lower

FilterSpec == FilterInit /\ [][FilterNext]_vars

(***************************************************************************)
(* Properties of the render-once tracker (RunSpec).                        *)
(***************************************************************************)
Names(r) == type_renderer[r].include_once_names

\* C1: within one run, include_once_check(name) returns true exactly on the
\* first call with that name and false on every later call with it, so the
\* number of true results equals the number of distinct names seen.
C1_TrueOncePerName ==
    \A r \in Runs :
        /\ \A i \in 1..Len(calls[r]) :
              calls[r][i].result =
                 (\A j \in 1..(i - 1) : calls[r][j].name # calls[r][i].name)
        /\ Cardinality({i \in 1..Len(calls[r]) : calls[r][i].result})
             = Cardinality({calls[r][i].name : i \in 1..Len(calls[r])})

\* a run that asked for one name twice and then for another name
C1_Witness ==
    \E r \in Runs :
        /\ Len(calls[r]) = 3
        /\ calls[r][1].name = calls[r][2].name
        /\ calls[r][3].name # calls[r][1].name
        /\ ~calls[r][2].result
        /\ calls[r][3].result

\* C2: two runs never share render-once state: an include_once_check in one
\* run leaves the other run's renderer, and so the answer it gives for every
\* name, as it was; and the renderer a run starts with answers true for every
\* name, whatever the other run has marked.
C2_NoSharedState ==
    [][\A r \in Runs :
          /\ \A name \in HelperNames :
                IncludeOnceCheck(r, name) =>
                   \A q \in Runs \ {r} :
                      /\ type_renderer'[q] = type_renderer[q]
                      /\ \A n \in HelperNames :
                            include_once_check_result(type_renderer'[q], n)
                              = include_once_check_result(type_renderer[q], n)
          /\ GenerateBindings(r) =>
                \A n \in HelperNames :
                   include_once_check_result(type_renderer'[r], n)
       ]_vars

\* both runs are rendering, one has marked a name, and the other, started
\* afresh, has been answered true for the same name
C2_Witness ==
    \E name \in HelperNames :
        /\ run_pc["run1"] = "render_types"
        /\ run_pc["run2"] = "render_types"
        /\ name \in Names("run1")
        /\ Len(calls["run1"]) = 2
        /\ calls["run2"] = <<[name |-> name, result |-> TRUE]>>

\* C3: the ledger is created empty and only grows: a step that keeps a
\* run's renderer alive never removes a name, and include_once_check(name)
\* leaves the set as it was when name is in it and otherwise adds name and
\* nothing else.
C3_LedgerMonotonic ==
    [][\A r \in Runs :
          /\ (~type_renderer[r].alive /\ type_renderer'[r].alive)
                => Names(r)' = {}
          /\ (type_renderer[r].alive /\ type_renderer'[r].alive)
                => Names(r) \subseteq Names(r)'
          /\ \A name \in HelperNames :
                IncludeOnceCheck(r, name) =>
                   /\ Names(r)' = Names(r) \cup {name}
                   /\ name \in Names(r) => Names(r)' = Names(r)
       ]_vars

\* a ledger of two names after three calls: one call left it unchanged
C3_Witness ==
    \E r \in Runs :
        /\ type_renderer[r].alive
        /\ Cardinality(Names(r)) = 2
        /\ Len(calls[r]) = 3

(***************************************************************************)
(* Properties of the sanitizer (SanSpec).                                  *)
(***************************************************************************)
SanReturned(op) == san_pc = "returned" /\ san_call.op = op

Registered == is_name_used_as_error(san_call.ci, san_call.nm)

\* the reserved-word escape of an identifier, written out
Escaped(name) == IF name \in KEYWORDS THEN "_" \o name ELSE name

\* the steps of a method other than the guard, applied in order
RECURSIVE WithoutGuard(_)
WithoutGuard(steps) ==
    IF steps = <<>> THEN <<>>
    ELSE IF Head(steps) = "fixup_keyword" THEN WithoutGuard(Tail(steps))
    ELSE <<Head(steps)>> \o WithoutGuard(Tail(steps))

FullyTransformed ==
    apply_steps(WithoutGuard(sanitizer_steps(san_call.op, san_call.ci,
                                             san_call.nm)), san_call.nm)

\* C4: var_name of a reserved keyword is the keyword escaped, which differs
\* from the input; var_name of a name that is no keyword once case-converted
\* is the case-converted name, unescaped.
C4_VarNameEscapesKeywords ==
    SanReturned("var_name") =>
        /\ san_call.nm \in KEYWORDS =>
              /\ san_val = "_" \o san_call.nm
              /\ san_val # san_call.nm
        /\ to_lower_camel_case(san_call.nm) \notin KEYWORDS =>
              san_val = to_lower_camel_case(san_call.nm)

\* C5 as stated: class_name of a reserved keyword is the keyword escaped,
\* which differs from the input.
C5_ClassNameEscapesKeywords ==
    (SanReturned("class_name") /\ san_call.nm \in KEYWORDS) =>
        /\ san_val = "_" \o san_call.nm
        /\ san_val # san_call.nm

\* C5 as amended: class_name of a reserved keyword differs from the input
\* and is no reserved keyword, but carries no escape: it is the keyword with
\* its first letter capitalised (for "_", with the underscore dropped).
C5_ClassNameCapitalizesKeywords ==
    (SanReturned("class_name") /\ san_call.nm \in KEYWORDS) =>
        /\ san_val # san_call.nm
        /\ san_val \notin KEYWORDS
        /\ ~starts_with(san_val, "_")
        /\ san_val = IF san_call.nm = "_" THEN "" ELSE capitalize(san_call.nm)

C5_Witness ==
    /\ SanReturned("class_name")
    /\ san_call.nm = "class"
    /\ san_val = "Class"
    /\ "fixup_keyword" = san_done[Len(san_done)]

GuardedOps ==
    { "class_name", "fn_name", "var_name", "setter", "enum_variant_name",
      "ffi_callback_name", "ffi_struct_name" }

\* C6 as stated: in each of the seven sanitizer methods the reserved-word
\* guard is the last transformation applied.
C6_GuardIsLastStep ==
    (san_pc = "returned" /\ san_call.op \in GuardedOps) =>
        /\ san_done # <<>>
        /\ san_done[Len(san_done)] = "fixup_keyword"

\* C6 as amended: class_name, fn_name and var_name apply the guard last;
\* setter applies it before prefixing "set"; enum_variant_name,
\* ffi_callback_name and ffi_struct_name apply no guard.  In all seven the
\* result is what the guard gives on the fully transformed identifier, and
\* is never a reserved keyword.
C6_GuardPlacement ==
    (san_pc = "returned" /\ san_call.op \in GuardedOps) =>
        /\ san_call.op \in {"class_name", "fn_name", "var_name"} =>
              san_done[Len(san_done)] = "fixup_keyword"
        /\ san_call.op = "setter" =>
              san_done = <<"to_upper_camel_case", "fixup_keyword", "format_set">>
        /\ san_call.op \in {"enum_variant_name", "ffi_callback_name",
                            "ffi_struct_name"} =>
              \A i \in 1..Len(san_done) : san_done[i] # "fixup_keyword"
        /\ san_val = Escaped(FullyTransformed)
        /\ san_val \notin KEYWORDS

\* a collision that only the case conversion creates, escaped
C6_Witness ==
    /\ SanReturned("var_name")
    /\ san_call.nm = "Class"
    /\ san_val = "_class"

\* C7: with name the upper-camel-case form of the raw name, class_name is
\* name with a trailing "Error" replaced by "Exception" when the raw name is
\* registered as an error and name ends in "Error", and is name itself
\* otherwise: when the raw name is not registered, or when "Error" occurs
\* only before the end of name.
C7_ErrorSuffix ==
    SanReturned("class_name") =>
        LET name == to_upper_camel_case(san_call.nm)
            n == Len(name)
            trailing == n >= 5 /\ SubSeq(name, n - 4, n) = "Error"
        IN  IF Registered /\ trailing
            THEN san_val = SubSeq(name, 1, n - 5) \o "Exception"
            ELSE san_val = name

\* a registered error with "Error" twice: only the trailing one is rewritten
C7_Witness ==
    /\ SanReturned("class_name")
    /\ Registered
    /\ san_call.nm = "ErrorError"
    /\ san_val = "ErrorException"

\* C8: the name of an ffi struct or ffi callback is never the class_name of
\* any raw name.
C8_FfiNamesApart ==
    (san_pc = "returned"
        /\ san_call.op \in {"ffi_callback_name", "ffi_struct_name"}) =>
        \A b \in RawNames, registered \in BOOLEAN :
            class_name([errors |-> IF registered THEN {b} ELSE {}], b) # san_val

\* C26: what var_name, fn_name and class_name return is no reserved
\* keyword, whatever the raw name; var_name_raw returns a reserved keyword
\* exactly when the lower-camel-case form of the raw name is one, and
\* var_name of the same raw name is then that keyword escaped.
C26_NoKeywordReturned ==
    /\ \A op \in {"var_name", "fn_name", "class_name"} :
          SanReturned(op) =>
             \A k \in KEYWORDS : san_val # k
    /\ SanReturned("var_name_raw") =>
          /\ san_done = <<"to_lower_camel_case">>
          /\ (\E k \in KEYWORDS : san_val = k)
                <=> to_lower_camel_case(san_call.nm) \in KEYWORDS
          /\ (\E k \in KEYWORDS : san_val = k) =>
                /\ var_name(san_call.nm) = "_" \o san_val
                /\ fn_name(san_call.nm) = "_" \o san_val

\* var_name_raw has returned a reserved keyword
C26_Witness ==
    /\ SanReturned("var_name_raw")
    /\ san_call.nm = "Class"
    /\ san_val = "class"
    /\ san_val \in KEYWORDS

(***************************************************************************)
(* Properties of the FFI-type table (FfiSpec).                             *)
(***************************************************************************)
FfiDone(op) == ffi_pc # "called" /\ ffi_call.op = op

\* C9: the primitive representation differs from the object representation
\* for a scalar numeric type and equals it for a buffer (tagged or not), a
\* struct and a callback, for every configuration and crate name.
C9_PrimitiveVsObject ==
    FfiDone("ffi_type_primitive") =>
        LET object == ffi_type_label(ffi_call.ffi_type, ffi_call.config,
                                     ffi_call.ci)
        IN  /\ ffi_call.ffi_type.kind \in ScalarKinds => ffi_result # object
            /\ ffi_call.ffi_type.kind \in {"RustBuffer", "Struct", "Callback"}
                  => ffi_result = object

\* C10: the by-reference representation returns a label exactly for scalar
\* numerics, RustArcPtr, RustBuffer and Struct and panics for every other
\* kind; the object and the primitive representation of a reference to a
\* reference panic.
C10_ByReferenceFailsFast ==
    /\ FfiDone("ffi_type_label_by_reference") =>
          /\ ffi_pc \in {"returned", "panicked"}
          /\ ffi_pc = "returned" <=>
                ffi_call.ffi_type.kind
                   \in ScalarKinds \cup {"RustArcPtr", "RustBuffer", "Struct"}
          /\ ffi_result.panic <=> ffi_pc = "panicked"
    /\ \A op \in {"ffi_type_label", "ffi_type_primitive"} :
          (FfiDone(op) /\ ffi_call.ffi_type.kind \in RefKinds
              /\ ffi_call.ffi_type.inner[1].kind \in RefKinds) =>
             (ffi_pc = "panicked" /\ ffi_result.panic)

\* the object representation of a reference to a mutable reference: a panic
C10_Witness ==
    /\ ffi_pc = "panicked"
    /\ ffi_call.op = "ffi_type_label"
    /\ ffi_call.ffi_type.kind = "Reference"
    /\ ffi_call.ffi_type.inner[1].kind = "MutReference"

\* C11: every FFI type that ffi_type_label_for_ffi_struct accepts as the type
\* of a struct field (it returns a label for it) has a default value:
\* ffi_default_value returns a literal and does not panic.
C11_DefaultValueCoverage ==
    (FfiDone("ffi_default_value")
        /\ ~ffi_type_label_for_ffi_struct(ffi_call.ffi_type, ffi_call.config,
                                          ffi_call.ci).panic)
       => (ffi_pc = "returned" /\ ~ffi_result.panic)

\* C12: the object representation of a buffer tagged with an originating
\* module that differs from the crate being generated is the package the
\* cross-module resolver returns for the tag, followed by ".RustBuffer"; of
\* an untagged buffer, or one tagged with the crate being generated, it is
\* the local name "RustBuffer".
C12_CrossModuleBuffer ==
    (FfiDone("ffi_type_label") /\ ffi_call.ffi_type.kind = "RustBuffer") =>
        LET ext == ffi_call.ffi_type.ext
        IN  /\ ffi_pc = "returned"
            /\ IF ext # <<>> /\ ext[1].module_path # ffi_call.ci.crate_name
               THEN ffi_result.val =
                      external_type_package_name(ffi_call.config,
                          ext[1].module_path, ext[1].name) \o ".RustBuffer"
               ELSE ffi_result.val = "RustBuffer"

\* a buffer of crate_b labelled while generating crate_a, with an override
\* registered for crate_b
C12_Witness ==
    /\ FfiDone("ffi_type_label")
    /\ ffi_call.ffi_type.kind = "RustBuffer"
    /\ ffi_call.ffi_type.ext # <<>>
    /\ ffi_call.ffi_type.ext[1].module_path = "crate_b"
    /\ ffi_call.ci.crate_name = "crate_a"
    /\ ffi_result = Ok("com.example.b.RustBuffer")

(***************************************************************************)
(* Properties of the registry and of the filters (FilterSpec).             *)
(***************************************************************************)
FltDone(op) == flt_pc # "called" /\ flt_call.op = op

\* the descriptor struct of a variant: named after the variant, the
\* unsigned integers after their signed counterparts
DescriptorOf(kind) ==
    IF kind \in UnsignedIntKinds THEN Tail(kind) \o "CodeType"
    ELSE kind \o "CodeType"

\* t and, recursively, the types its descriptor holds resolve to the
\* descriptor of their variant
RECURSIVE ResolvesAll(_)
ResolvesAll(t) ==
    /\ find(t).codetype = DescriptorOf(t.kind)
    /\ \A i \in 1..Len(find(t).inner) : ResolvesAll(find(t).inner[i])

\* C13: resolution is total: for every IR type, nested compositions
\* included, find returns the one descriptor of the type's variant, for the
\* type and for every type nested in it, and computing the canonical name
\* and the type label of the type returns a non-empty name, without failure.
C13_ResolutionTotal ==
    /\ FltDone("find") =>
          /\ flt_pc = "returned"
          /\ flt_result.tag = "Ok"
          /\ ResolvesAll(flt_call.as_ct)
          /\ flt_result.val.codetype = DescriptorOf(flt_call.as_ct.kind)
    /\ \A op \in {"canonical_name", "type_name"} :
          FltDone(op) =>
             /\ flt_pc = "returned"
             /\ flt_result.tag = "Ok"
             /\ flt_result.val # ""

\* Optional(Sequence(Map(K, V))) resolved
C13_Witness ==
    /\ FltDone("find")
    /\ flt_call.as_ct.kind = "Optional"
    /\ flt_call.as_ct.args[1].kind = "Sequence"
    /\ flt_call.as_ct.args[1].args[1].kind = "Map"
    /\ flt_result.val.codetype = "OptionalCodeType"

SequenceOf(t) == Type("Sequence", "", "", "", <<t>>)

MapOf(k, v) == Type("Map", "", "", "", <<k, v>>)

IsPrimitive(t) == t.kind \in PrimitiveKinds

\* two integer kinds of one width, one signed and one unsigned
SignTwins(k1, k2) ==
    /\ k1 # k2
    /\ {k1, k2} \in {{"Int8", "UInt8"}, {"Int16", "UInt16"},
                     {"Int32", "UInt32"}, {"Int64", "UInt64"}}

C15_ObjectNamesPair ==
    FltDone("object_names") =>
        LET cn == class_name(flt_call.ci, flt_call.obj.name)
            interface_name == flt_result.val[1]
            impl_name == flt_result.val[2]
        IN  /\ flt_result.tag = "Ok"
            /\ Len(flt_result.val) = 2
            /\ IF flt_call.obj.imp = "CallbackTrait"
               THEN interface_name = cn /\ impl_name = cn \o "Impl"
               ELSE interface_name = cn \o "Interface" /\ impl_name = cn
            /\ interface_name # impl_name
            /\ (interface_name = cn) # (impl_name = cn)

\* a trait object with foreign implementations: the name is the interface
C15_Witness ==
    /\ FltDone("object_names")
    /\ flt_call.obj = [name |-> "line_segment", imp |-> "CallbackTrait"]
    /\ flt_result.val = <<"LineSegment", "LineSegmentImpl">>

IntegerRepr(e) ==
    /\ e.discr_type # <<>>
    /\ e.discr_type[1].kind \in SignedIntKinds \cup UnsignedIntKinds

\* C16: variant_discr_literal of an existing variant returns a literal
\* exactly when the discriminant is a UInt or Int literal and the enum's
\* repr is an integer type, and the literal is then the discriminant in
\* base 10 (followed by "u" for an unsigned repr); in every other case it
\* returns an error that says so ("Only ints are supported." for another
\* literal kind or repr type, "Enum hasn't defined a repr" for none); the
\* default CodeType::literal panics for every literal.
C16_IntegerLiteralsOnly ==
    /\ (FltDone("variant_discr_literal")
           /\ flt_call.index < Len(flt_call.e.discrs)) =>
          LET e == flt_call.e
              literal == e.discrs[flt_call.index + 1]
              is_int == literal.kind \in {"UInt", "Int"}
          IN  /\ flt_pc = "returned"
              /\ flt_result.tag \in {"Ok", "Err"}
              /\ flt_result.tag = "Ok" <=> (is_int /\ IntegerRepr(e))
              /\ flt_result.tag = "Ok" =>
                    flt_result.val =
                       to_string(literal.v)
                          \o (IF e.discr_type[1].kind \in UnsignedIntKinds
                              THEN "u" ELSE "")
              /\ flt_result.tag = "Err" =>
                    flt_result.val =
                       IF is_int /\ e.discr_type = <<>>
                       THEN "Enum hasn't defined a repr"
                       ELSE "Only ints are supported."
    /\ FltDone("literal") =>
          (flt_pc = "panicked" /\ flt_result.tag = "panic")

\* a negative discriminant of an enum with a signed repr
C16_Witness ==
    /\ FltDone("variant_discr_literal")
    /\ flt_call.index = 0
    /\ flt_call.e.discrs[1] = Literal("Int", 0 - 12)
    /\ flt_call.e.discr_type = <<Prim("Int16")>>
    /\ flt_result = ResultOk("-12")

\* str::contains
contains(s, sub) ==
    \E i \in 1..(Len(s) - Len(sub) + 1) : SubSeq(s, i, i + Len(sub) - 1) = sub

\* C17: a discriminant that cannot be rendered (the enum declares no repr,
\* or a repr or a literal that is no integer) is a failure, not output text,
\* and the failure names the enum or the variant.
C17_FailureNamesOffender ==
    (FltDone("variant_discr_literal")
        /\ flt_call.index < Len(flt_call.e.discrs)
        /\ \/ ~IntegerRepr(flt_call.e)
           \/ flt_call.e.discrs[flt_call.index + 1].kind \notin {"UInt", "Int"})
       =>
        /\ flt_result.tag # "Ok"
        /\ \/ contains(flt_result.val, flt_call.e.name)
           \/ contains(flt_result.val,
                       flt_call.e.variants[flt_call.index + 1])

\* the text of a module path before its first "::"
RootSegment(mp) ==
    LET IsSep(i) == i + 2 <= Len(mp) /\ SubSeq(mp, i + 1, i + 2) = "::"
        n == CHOOSE i \in 0..Len(mp) :
                /\ i = Len(mp) \/ IsSep(i)
                /\ \A j \in 0..(i - 1) : ~IsSep(j)
    IN  SubSeq(mp, 1, n)

\* C18: external_type_package_name returns the entry of the
\* external-packages table for the root segment of the module path when
\* there is one, and "uniffi." followed by the display name otherwise; the
\* call leaves the table as it was, and a second call gives the same answer.
C18_ResolverLookup ==
    [][ExternalTypePackageName =>
          LET table == flt_call.config.external_packages
              root == RootSegment(flt_call.module_path)
          IN  /\ flt_result'.tag = "Ok"
              /\ flt_result'.val =
                    IF root \in DOMAIN table THEN table[root]
                    ELSE "uniffi." \o flt_call.namespace
              /\ flt_call'.config = flt_call.config
              /\ external_type_package_name(flt_call'.config,
                     flt_call'.module_path, flt_call'.namespace)
                   = flt_result'.val
      ]_vars

\* a path below a crate with an override, and a crate without one
C18_Witness ==
    /\ FltDone("external_type_package_name")
    /\ flt_call.module_path = "crate_b::sub"
    /\ flt_call.config.external_packages
         = [c \in {"crate_b"} |-> "com.example.b"]
    /\ flt_result = ResultOk("com.example.b")
    /\ external_type_package_name(flt_call.config, "crate_a", "geometry")
         = "uniffi.geometry"

\* C19: async_return_type is the type name of the declared return type for
\* a callable that is not async, that name inside CompletableFuture<> for
\* one that is, and CompletableFuture<Void> for an async callable that
\* declares no return type.
C19_SurfaceReturnType ==
    FltDone("async_return_type") =>
        LET callable == flt_call.callable
            declared ==
                type_name(callable.return_type[1], flt_call.ci,
                          flt_call.config).val
        IN  /\ flt_result.tag = "Ok"
            /\ (~callable.is_async /\ callable.return_type # <<>>) =>
                  flt_result.val = declared
            /\ (callable.is_async /\ callable.return_type # <<>>) =>
                  flt_result.val = "CompletableFuture<" \o declared \o ">"
            /\ (callable.is_async /\ callable.return_type = <<>>) =>
                  flt_result.val = "CompletableFuture<Void>"
            /\ callable.is_async =>
                  /\ ~contains(flt_result.val, "<>")
                  /\ ~contains(flt_result.val, "<void>")

\* an async callable returning Boolean: a future of the boxed type
C19_Witness ==
    /\ FltDone("async_return_type")
    /\ flt_call.callable.is_async
    /\ flt_call.callable.return_type = <<Prim("Boolean")>>
    /\ flt_result = ResultOk("CompletableFuture<Boolean>")

\* the call of the native completion function async_complete forwards to
CompleteCall ==
    "UniffiLib.getInstance()." \o flt_call.callable.ffi_rust_future_complete
        \o "(future, continuation)"

\* the return type is a buffer type owned by another crate
ExternalBufferReturn ==
    /\ flt_call.callable.return_type # <<>>
    /\ is_external(flt_call.ci, flt_call.callable.return_type[1])
    /\ FfiType_from(flt_call.callable.return_type[1]).kind = "RustBuffer"

\* C20: for an async callable async_complete returns a closure of (future,
\* continuation) that calls the native completion function with both: its
\* body is the call itself, unless the return type is a buffer type of
\* another crate, and then the body passes the result's capacity, len and
\* data to the create function of that crate's RustBuffer.
C20_CompleteIsClosure ==
    (FltDone("async_complete") /\ flt_call.callable.is_async) =>
        /\ flt_result.tag = "Ok"
        /\ starts_with(flt_result.val, "(future, continuation) -> ")
        /\ contains(flt_result.val, CompleteCall)
        /\ IF ExternalBufferReturn
           THEN LET t == flt_call.callable.return_type[1]
                IN  contains(flt_result.val,
                        "return "
                        \o external_type_package_name(flt_call.config,
                               t.module_path, t.name)
                        \o ".RustBuffer.create(result.capacity, result.len, result.data);")
           ELSE flt_result.val = "(future, continuation) -> " \o CompleteCall

\* C21: a callable that throws an error type of another crate is refused
\* with a failure that names it: can_render_callable does not return for
\* it, and the failure carries the callable's or the error type's name.
C21_ExternalErrorFails ==
    (FltDone("can_render_callable")
        /\ flt_call.callable.throws_type # <<>>
        /\ is_external(flt_call.ci, flt_call.callable.throws_type[1]))
       =>
        /\ flt_result.tag \in {"Err", "panic"}
        /\ \/ contains(flt_result.val, flt_call.callable.name)
           \/ contains(flt_result.val, flt_call.callable.throws_type[1].name)

\* the template a lift or lower call applies: the field of that name, or
\* its older alias when the field is empty
AppliedTemplate ==
    LET self == flt_call.self
    IN  IF flt_call.op = "lift"
        THEN (IF self.lift # "" THEN self.lift ELSE self.into_custom)
        ELSE (IF self.lower # "" THEN self.lower ELSE self.from_custom)

\* where the placeholder occurs in a template
Placeholders(t) == {i \in 1..(Len(t) - 1) : SubSeq(t, i, i + 1) = "{}"}

DeclaredAs ==
    {t \in flt_call.ci.types : t.name = flt_call.type_name}

\* C24: potentially_add_external_package returns the resolver's package,
\* a dot and the display name when the type name is known to the interface
\* and declared in another crate, having asked the resolver once, for that
\* crate's module path; for a type of the interface's own crate and for an
\* unknown name it returns the display name unchanged and never asks the
\* resolver.
C24_PackageOnlyForExternal ==
    FltDone("potentially_add_external_package") =>
        LET display_name == flt_call.display_name
            packages == flt_call.config.external_packages
            foreign == {t \in DeclaredAs :
                          RootSegment(t.module_path) # flt_call.ci.crate_name}
            out == flt_result.val
        IN  /\ flt_result.tag = "Ok"
            /\ \A t \in foreign :
                  /\ out.resolver_calls =
                        <<[module_path |-> t.module_path,
                           namespace |-> display_name]>>
                  /\ out.value =
                        (IF RootSegment(t.module_path) \in DOMAIN packages
                         THEN packages[RootSegment(t.module_path)]
                         ELSE "uniffi." \o display_name)
                           \o "." \o display_name
            /\ foreign = {} =>
                  /\ out.value = display_name
                  /\ out.resolver_calls = <<>>

\* a known type of another crate, and a package configured for that crate
C24_Witness ==
    /\ FltDone("potentially_add_external_package")
    /\ flt_call.ci.crate_name = "crate_a"
    /\ flt_call.type_name = "line_segment"
    /\ DeclaredAs # {}
    /\ flt_call.display_name = "LineSegment"
    /\ flt_result.val.value = "com.example.b.LineSegment"
    /\ Len(flt_result.val.resolver_calls) = 1

(***************************************************************************)
(* Properties of a generation run as a whole (RunSpec).                    *)
(***************************************************************************)
\* C22: a generation run ends only by generate_bindings returning, the
\* whole text or an error: a run that is not under way has returned Ok or
\* Err, and a failure while the type helpers are rendered makes the call
\* return Err.
C22_FailuresAreReturned ==
    \A r \in Runs :
        run_pc[r] \in {"idle", "render_types", "render_wrapper",
                       "returned_ok", "returned_err"}


\* C25: each call of generate_bindings creates one TypeRenderer, with an
\* empty render-once set, and no renderer is created at any other moment;
\* the type helpers are rendered once per call, first, and the wrapper
\* template only after them; the renderer lives exactly while the type
\* helpers are rendered, so that after the call no renderer and no mark of
\* it is left.
C25_OneRendererPerCall ==
    [][\A r \in Runs :
          /\ (run_pc[r] # "render_types" /\ run_pc'[r] = "render_types") =>
                /\ run_pc[r] \in {"idle", "returned_ok", "returned_err"}
                /\ type_renderer'[r] = [alive |-> TRUE,
                                        include_once_names |-> {}]
          /\ (~type_renderer[r].alive /\ type_renderer'[r].alive) =>
                (run_pc[r] # "render_types" /\ run_pc'[r] = "render_types")
          /\ (run_pc[r] = "render_types" /\ run_pc'[r] # "render_types") =>
                run_pc'[r] \in {"render_wrapper", "panicked"}
          /\ (run_pc[r] # "render_wrapper" /\ run_pc'[r] = "render_wrapper")
                => run_pc[r] = "render_types"
          /\ run_pc[r] = "render_wrapper" =>
                run_pc'[r] \in {"render_wrapper", "returned_ok",
                                "returned_err"}
          /\ (run_pc'[r] \in {"returned_ok", "returned_err"}
                 /\ run_pc[r] # run_pc'[r]) => run_pc[r] = "render_wrapper"
          /\ type_renderer'[r].alive <=> run_pc'[r] = "render_types"
          /\ ~type_renderer'[r].alive =>
                type_renderer'[r].include_once_names = {}
    ]_vars

\* a call that marked names has returned, and its renderer is gone, while
\* another call is rendering its type helpers with marks of its own
C25_Witness ==
    /\ run_pc["run1"] = "returned_ok"
    /\ Len(calls["run1"]) = 2
    /\ ~type_renderer["run1"].alive
    /\ type_renderer["run1"].include_once_names = {}
    /\ run_pc["run2"] = "render_types"
    /\ type_renderer["run2"].include_once_names # {}


=============================================================================
